---- MODULE Spec2Model ----
(***************************************************************************)
(* A model of analysis.py, a reactive notebook of six cells: two sliders   *)
(* (Cell 1), a synthetic data set (Cell 2), a least-squares fit (Cell 3),  *)
(* a Markdown report (Cell 4), a chart (Cell 5) and a static note (Cell 6).*)
(*                                                                         *)
(* Numbers.  The notebook computes in binary floating point; the model     *)
(* computes the same expressions in exact rational arithmetic.  sigma is   *)
(* held in hundredths (1.0 is 100).  An array is a record [den, num]: element i *)
(* is num[i] / den.  The sums of the fit exceed 32 bits, so the fit is     *)
(* computed on arbitrary-precision integers (records [s, m]: sign and      *)
(* base-10000 limbs, least significant first).                             *)
(***************************************************************************)
EXTENDS Integers, Sequences, FiniteSets, TLC

(***************************************************************************)
(* Bounds of the model: which slider positions the user's drags reach, and *)
(* how many slider changes a behaviour holds.                              *)
(***************************************************************************)
MaxSigmaPos == 0
MaxNPos == 0
MaxChanges == 2
MaxLinspaceN == 6

(***************************************************************************)
(* Arbitrary-precision integers.                                           *)
(***************************************************************************)
Base == 10 ^ 4

Abs(a) == IF a < 0 THEN -a ELSE a

Sign(a) == IF a < 0 THEN -1 ELSE IF a = 0 THEN 0 ELSE 1

RECURSIVE Limbs(_)
Limbs(k) == IF k = 0 THEN <<>> ELSE <<k % Base>> \o Limbs(k \div Base)

RECURSIVE Trim(_)
Trim(a) ==
  IF a = <<>> THEN a
  ELSE IF a[Len(a)] = 0 THEN Trim(SubSeq(a, 1, Len(a) - 1)) ELSE a

RECURSIVE AddC(_, _, _)
AddC(a, b, c) ==
  IF a = <<>> /\ b = <<>> THEN (IF c = 0 THEN <<>> ELSE <<c>>)
  ELSE LET da == IF a = <<>> THEN 0 ELSE Head(a)
           db == IF b = <<>> THEN 0 ELSE Head(b)
           s == da + db + c
       IN <<s % Base>> \o AddC(IF a = <<>> THEN a ELSE Tail(a),
                               IF b = <<>> THEN b ELSE Tail(b), s \div Base)

\* a - b - c on limbs, for a >= b + c
RECURSIVE SubC(_, _, _)
SubC(a, b, c) ==
  IF a = <<>> THEN <<>>
  ELSE LET db == IF b = <<>> THEN 0 ELSE Head(b)
           s == Head(a) - db - c
       IN <<s % Base>> \o SubC(Tail(a), IF b = <<>> THEN b ELSE Tail(b),
                               IF s < 0 THEN 1 ELSE 0)

\* -1, 0 or 1 as a < b, a = b, a > b, on trimmed limbs
RECURSIVE CmpN(_, _)
CmpN(a, b) ==
  IF Len(a) # Len(b) THEN (IF Len(a) < Len(b) THEN -1 ELSE 1)
  ELSE IF a = <<>> THEN 0
  ELSE LET k == Len(a) IN
       IF a[k] # b[k] THEN (IF a[k] < b[k] THEN -1 ELSE 1)
       ELSE CmpN(Trim(SubSeq(a, 1, k - 1)), Trim(SubSeq(b, 1, k - 1)))

RECURSIVE MulD(_, _, _)
MulD(a, d, c) ==
  IF a = <<>> THEN (IF c = 0 THEN <<>> ELSE <<c>>)
  ELSE LET s == Head(a) * d + c
       IN <<s % Base>> \o MulD(Tail(a), d, s \div Base)

RECURSIVE MulN(_, _)
MulN(a, b) ==
  IF a = <<>> \/ b = <<>> THEN <<>>
  ELSE LET rest == MulN(a, Tail(b))
       IN AddC(IF Head(b) = 0 THEN <<>> ELSE MulD(a, Head(b), 0),
               IF rest = <<>> THEN rest ELSE <<0>> \o rest, 0)

Big(k) == [s |-> Sign(k), m |-> Limbs(Abs(k))]

BZero == Big(0)

BNeg(a) == [s |-> -a.s, m |-> a.m]

BMul(a, b) == [s |-> a.s * b.s, m |-> MulN(a.m, b.m)]

BAdd(a, b) ==
  IF a.s = 0 THEN b
  ELSE IF b.s = 0 THEN a
  ELSE IF a.s = b.s THEN [s |-> a.s, m |-> AddC(a.m, b.m, 0)]
  ELSE LET c == CmpN(a.m, b.m) IN
       IF c = 0 THEN BZero
       ELSE IF c > 0 THEN [s |-> a.s, m |-> Trim(SubC(a.m, b.m, 0))]
       ELSE [s |-> b.s, m |-> Trim(SubC(b.m, a.m, 0))]

BSub(a, b) == BAdd(a, BNeg(b))

\* -1, 0 or 1 as a < b, a = b, a > b
BCmp(a, b) == BSub(a, b).s

(***************************************************************************)
(* Exact rationals [num, den] over the arbitrary-precision integers, with  *)
(* den > 0; den = 0 stands for the undefined results (nan, inf) of a       *)
(* degenerate fit.                                                         *)
(***************************************************************************)
Rat(p, q) == IF q.s < 0 THEN [num |-> BNeg(p), den |-> BNeg(q)] ELSE [num |-> p, den |-> q]

RatEq(a, b) == BMul(a.num, b.den) = BMul(b.num, a.den)

\* floor(p / q) for q > 0, by bisection on lo * q <= p < hi * q
RECURSIVE FloorBetween(_, _, _, _)
FloorBetween(p, q, lo, hi) ==
  IF hi - lo <= 1 THEN lo
  ELSE LET mid == (lo + hi) \div 2 IN
       IF BCmp(BMul(Big(mid), q), p) <= 0 THEN FloorBetween(p, q, mid, hi)
       ELSE FloorBetween(p, q, lo, mid)

FloorDiv(p, q) == FloorBetween(p, q, -(2 ^ 29), 2 ^ 29)

\* k = floor(t / q2), lowered to the even neighbour when t / q2 is the odd k
TieToEven(k, t, q2) == IF BMul(Big(k), q2) = t /\ k % 2 # 0 THEN k - 1 ELSE k

\* floor(t / q2), ties to even
NearestOf(t, q2) == TieToEven(FloorDiv(t, q2), t, q2)

\* the integer nearest to p / q (q > 0), ties to the even one:
\* floor((2p + q) / 2q), but for the ties
RoundHalfEven(p, q) == NearestOf(BAdd(BMul(Big(2), p), q), BMul(Big(2), q))

RECURSIVE Digits(_, _)
Digits(k, d) == IF d = 0 THEN "" ELSE Digits(k \div 10, d - 1) \o ToString(k % 10)

\* the text of k / 10^d with d decimals; neg says the value rounded was below zero
Fixed(k, d, neg) ==
  (IF neg THEN "-" ELSE "") \o ToString(Abs(k) \div (10 ^ d))
    \o (IF d = 0 THEN "" ELSE "." \o Digits(Abs(k) % (10 ^ d), d))

\* format(v, ".<d>f") of a rational
FormatFixed(v, d) ==
  IF v.den.s = 0 THEN "nan"
  ELSE Fixed(RoundHalfEven(BMul(v.num, Big(10 ^ d)), v.den), d, v.num.s < 0)

(***************************************************************************)
(* Arrays: [den, num], element i being num[i] / den, with the arithmetic   *)
(* the notebook applies to them.                                           *)
(***************************************************************************)
\* p/q * a
ArrScale(p, q, a) == [den |-> q * a.den, num |-> [i \in DOMAIN a.num |-> p * a.num[i]]]

\* a + c
ArrAddConst(a, c) == [den |-> a.den, num |-> [i \in DOMAIN a.num |-> a.num[i] + c * a.den]]

\* a + b, elementwise, for arrays of equal length
ArrAdd(a, b) ==
  [den |-> a.den * b.den,
   num |-> [i \in DOMAIN a.num |-> a.num[i] * b.den + b.num[i] * a.den]]

ArrLen(a) == Len(a.num)

RECURSIVE SumR(_, _, _)
SumR(a, lo, hi) ==
  IF lo > hi THEN BZero
  ELSE IF lo = hi THEN Big(a[lo])
  ELSE LET mid == (lo + hi) \div 2 IN BAdd(SumR(a, lo, mid), SumR(a, mid + 1, hi))

\* the sum of a's elements
Sum(a) == SumR(a, 1, Len(a))

RECURSIVE SumProdR(_, _, _, _)
SumProdR(a, b, lo, hi) ==
  IF lo > hi THEN BZero
  ELSE IF lo = hi THEN BMul(Big(a[lo]), Big(b[lo]))
  ELSE LET mid == (lo + hi) \div 2
       IN BAdd(SumProdR(a, b, lo, mid), SumProdR(a, b, mid + 1, hi))

\* the sum of a[i] * b[i]
SumProd(a, b) == SumProdR(a, b, 1, Len(a))

\* a linspace that stops one step short of stop: num - 1 points
LinspaceShort(start, stop, num) ==
  [den |-> num - 1,
   num |-> [i \in 1..(num - 1) |-> start * (num - 1) + (i - 1) * (stop - start)]]

\* a linspace that leaves the end point out: num points of step 1 / num
LinspaceOpen(start, stop, num) ==
  [den |-> num, num |-> [i \in 1..num |-> start * num + (i - 1) * (stop - start)]]

(***************************************************************************)
(* numpy.linspace(start, stop, num): num points from start to stop, both   *)
(* included.                                                               *)
(***************************************************************************)
Linspace(start, stop, num) ==
  IF num >= 2
  THEN [den |-> num - 1,
        num |-> [i \in 1..num |-> start * (num - 1) + (i - 1) * (stop - start)]]
  ELSE [den |-> 1, num |-> [i \in 1..num |-> start]]

(***************************************************************************)
(* numpy.random: a generator is its seed and its position in the stream    *)
(* the seed fixes.  StdNormal is the stream: the k-th standard normal draw *)
(* of a generator, a fixed function of the seed and k (the values stand    *)
(* for the draws of the bit generator, which the model does not compute).  *)
(***************************************************************************)
default_rng(seed) == [seed |-> seed, pos |-> 0]

StdNormal(seed, k) == ((((seed + k * k) % 11) + ((seed + 5 * k) % 7)) % 5) - 2

\* rng.normal(loc, scale, size): the draws (loc and scale in hundredths)
Normal(g, loc, scale, size) ==
  [den |-> 100, num |-> [i \in 1..size |-> loc + scale * StdNormal(g.seed, g.pos + i - 1)]]

\* the generator after size draws
Advance(g, size) == [g EXCEPT !.pos = @ + size]

(***************************************************************************)
(* numpy.polyfit(x, y, 1) and numpy.corrcoef(x, y)[0, 1], from the sums of *)
(* the normal equations.                                                   *)
(***************************************************************************)
\* N * Sab - Sa * Sb: N^2 times the covariance of two columns of sums Sa, Sb
\* and sum of products Sab
Centred(N, Sa, Sb, Sab) == BSub(BMul(N, Sab), BMul(Sa, Sb))

MomentsOf(N, Sx, Sy, x, y) ==
  [N |-> N, Sx |-> Sx, Sy |-> Sy,
   cxx |-> Centred(N, Sx, Sx, SumProd(x, x)),
   cxy |-> Centred(N, Sx, Sy, SumProd(x, y)),
   cyy |-> Centred(N, Sy, Sy, SumProd(y, y))]

\* the sums of the numerators of x and y
Moments(x, y) == MomentsOf(Big(Len(x.num)), Sum(x.num), Sum(y.num), x.num, y.num)

\* the least-squares line from the sums m, dx and dy being the denominators
\* of x and y: slope = cxy / cxx, intercept = (Sy - slope * Sx) / N
LeastSquares(m, dx, dy) ==
  << Rat(BMul(m.cxy, dx), BMul(m.cxx, dy)),
     Rat(BSub(BMul(m.Sy, m.cxx), BMul(m.cxy, m.Sx)), BMul(BMul(m.N, m.cxx), dy)) >>

\* a fit that returns the coefficients lowest degree first
PolyfitSwapped(x, y) ==
  LET ls == LeastSquares(Moments(x, y), Big(x.den), Big(y.den)) IN <<ls[2], ls[1]>>

\* <<slope, intercept>> of the least-squares line
Polyfit(x, y) == LeastSquares(Moments(x, y), Big(x.den), Big(y.den))

\* Pearson's r = cxy / sqrt(cxx * cyy) from the sums m, held as its sign and
\* its square
Pearson(m) == [sgn |-> m.cxy.s, sq |-> Rat(BMul(m.cxy, m.cxy), BMul(m.cxx, m.cyy))]

Corrcoef(x, y) == Pearson(Moments(x, y))

\* the largest k in lo..hi-1 with (2k - 1)^2 * den <= 4 * 10^(2d) * num
RECURSIVE RootBetween(_, _, _, _)
RootBetween(sq, scale, lo, hi) ==
  IF hi - lo <= 1 THEN lo
  ELSE LET mid == (lo + hi) \div 2
           edge == Big((2 * mid - 1) * (2 * mid - 1))
       IN IF BCmp(BMul(edge, sq.den), BMul(scale, sq.num)) <= 0
          THEN RootBetween(sq, scale, mid, hi)
          ELSE RootBetween(sq, scale, lo, mid)

\* format(r, ".<d>f") of a correlation
FormatCorr(r, d) ==
  IF r.sq.den.s = 0 THEN "nan"
  ELSE Fixed(RootBetween(r.sq, Big(4 * 10 ^ (2 * d)), 0, 10 ^ d + 1), d, r.sgn < 0)

\* the array of (p * x[i] + q) / d
Affine(p, q, d, x) == [den |-> d, num |-> [i \in DOMAIN x |-> BAdd(BMul(p, Big(x[i])), q)]]

\* slope * x + intercept, over the product of the three denominators
Predict(slope, x, intercept) ==
  Affine(BMul(slope.num, intercept.den),
         BMul(intercept.num, BMul(slope.den, Big(x.den))),
         BMul(BMul(slope.den, Big(x.den)), intercept.den),
         x.num)

(***************************************************************************)
(* The notebook.  globals holds the variables the cells have defined, by   *)
(* name; output holds what each cell last displayed.  dirty is the set of  *)
(* cells the runtime has still to run in the current run.  cycle counts    *)
(* the slider changes, execs the executions of each cell, stamp[c] is the  *)
(* cycle in which cell c last ran, and history records the inputs and the  *)
(* result of every execution of Cell 2.                                    *)
(***************************************************************************)
VARIABLES globals, output, dirty, cycle, execs, stamp, history

vars == <<globals, output, dirty, cycle, execs, stamp, history>>

Cells == 1..6

\* a Cell 2 declared without sigma
Cell2ParamsNoSigma == {"n"}

\* a Cell 2 declared without n
Cell2ParamsNoN == {"sigma"}

\* the parameters of Cell 2
Cell2Params == {"n", "sigma"}

\* a Cell 6 declared with the sample size as a parameter
Cell6ParamsWithN == {"n"}

\* the parameters of Cell 6
Cell6Params == {}

\* the variables a cell reads: its parameters (mo, the default of Cell 1's
\* parameter, is the module's import and no cell's variable)
Refs(c) ==
  CASE c = 1 -> {}
    [] c = 2 -> Cell2Params
    [] c = 3 -> {"df", "np"}
    [] c = 4 -> {"intercept", "n", "r", "sigma", "slope"}
    [] c = 5 -> {"df", "y_hat"}
    [] c = 6 -> Cell6Params

\* the variables a cell defines: what it returns
Defs(c) ==
  CASE c = 1 -> {"n", "sigma"}
    [] c = 2 -> {"df", "np"}
    [] c = 3 -> {"intercept", "r", "slope", "y_hat"}
    [] c = 4 -> {}
    [] c = 5 -> {}
    [] c = 6 -> {}

\* the cells that define a variable c reads
Parents(c) == {p \in Cells : Defs(p) \cap Refs(c) # {}}

RECURSIVE Downstream(_)
\* the cells of S and every cell that reads, directly or not, what they define
Downstream(S) ==
  LET T == S \cup {c \in Cells : Parents(c) \cap S # {}}
  IN IF T = S THEN S ELSE Downstream(T)

\* the cells a change of the UI element named v re-runs
Affected(v) == Downstream({c \in Cells : v \in Refs(c)})

\* a cell may run as soon as the variables it reads are bound
ReadyWhenBound(c) == c \in dirty /\ Refs(c) \subseteq DOMAIN globals

\* a cell may run once every cell it reads from has run
Ready(c) == c \in dirty /\ Parents(c) \cap dirty = {}

\* the runtime handles a UI event only between runs
Idle == dirty = {}

(***************************************************************************)
(* Cell 1: the sliders (sigma in hundredths).                              *)
(***************************************************************************)
Slider(start, stop, step, value, label) ==
  [start |-> start, stop |-> stop, step |-> step, value |-> value, label |-> label]

SigmaSlider == Slider(0, 500, 10, 100, "Noise std (sigma)")

\* a sample-size slider that starts at 0
NSliderFromZero == Slider(0, 1000, 50, 300, "Sample size (n)")

NSlider == Slider(50, 1000, 50, 300, "Sample size (n)")

Cell1 ==
  [defs |-> [sigma |-> SigmaSlider, n |-> NSlider],
   out |-> [kind |-> "vstack", items |-> <<"sigma", "n">>]]

\* the positions of a slider's track, and the value at each
Positions(s) == 0..((s.stop - s.start) \div s.step)

ValueAt(s, k) == s.start + k * s.step

\* the values a drag can leave the slider at
SliderValues(s) == {ValueAt(s, k) : k \in Positions(s)}

(***************************************************************************)
(* Cell 2: the synthetic data, y = 2.5 x + 5 + eps.                        *)
(***************************************************************************)
Seed == 42

\* one generator for the whole session: the one the last execution left
SharedGenerator(g) == IF "rng" \in DOMAIN g THEN g.rng ELSE default_rng(Seed)

\* a generator seeded anew, differently, in every cycle
UnseededGenerator(g) == default_rng(Seed + cycle)

\* the generator Cell 2 draws from, g being the notebook's variables
Generator(g) == default_rng(Seed)

DataFrame(x, y) == [x |-> x, y |-> y]

\* the first k rows
DfHead(df, k) ==
  LET m == IF ArrLen(df.x) < k THEN ArrLen(df.x) ELSE k
  IN [x |-> [den |-> df.x.den, num |-> SubSeq(df.x.num, 1, m)],
      y |-> [den |-> df.y.den, num |-> SubSeq(df.y.num, 1, m)]]

\* y = 2.5 * x + 5 + eps, eps being drawn by rng with standard deviation sigma
Cell2Of(rng, x, sigma) ==
  [df |-> DataFrame(x, ArrAdd(ArrAddConst(ArrScale(5, 2, x), 5),
                              Normal(rng, 0, sigma, ArrLen(x)))),
   np |-> "numpy",
   rng |-> Advance(rng, ArrLen(x))]

\* the cell displays df.head()
Cell2Out(defs) == [defs |-> defs, out |-> [kind |-> "table", rows |-> DfHead(defs.df, 5)]]

Cell2(g) == Cell2Out(Cell2Of(Generator(g), Linspace(0, 10, g.n.value), g.sigma.value))

(***************************************************************************)
(* Cell 3: the least-squares line, the correlation and the predictions.    *)
(***************************************************************************)
\* the cell's variables, fit being <<slope, intercept>>; its last statement
\* is an assignment, so it displays nothing
Cell3Of(df, fit, r) ==
  [defs |-> [intercept |-> fit[2], r |-> r, slope |-> fit[1],
             y_hat |-> Predict(fit[1], df.x, fit[2])],
   out |-> [kind |-> "none"]]

Cell3(g) == Cell3Of(g.df, Polyfit(g.df.x, g.df.y), Corrcoef(g.df.x, g.df.y))

(***************************************************************************)
(* Cell 4: the report, as the pieces of its format string in order.        *)
(***************************************************************************)
\* format(v, ".1f") of a sigma in hundredths
FormatSigma(v) == FormatFixed(Rat(Big(v), Big(100)), 1)

Cell4(g) ==
  [defs |-> <<>>,
   out |-> [kind |-> "md",
            text |-> << "### Relationship summary",
                        "- **Model**: $y = ", FormatFixed(g.slope, 2), "x + ",
                        FormatFixed(g.intercept, 2), "$",
                        "- **Correlation**: $r = ", FormatCorr(g.r, 3), "$",
                        "- **Sample size**: **", ToString(g.n.value), "**",
                        "- **Noise std (sigma)**: **", FormatSigma(g.sigma.value), "**",
                        "_As sigma increases, the points spread further from the line_" >>]]

(***************************************************************************)
(* Cell 5: the chart, observations as markers and the fit as a line.       *)
(***************************************************************************)
Cell5(g) ==
  [defs |-> <<>>,
   out |-> [kind |-> "figure",
            data |-> << [x |-> g.df.x, y |-> g.df.y, mode |-> "markers", name |-> "observations"],
                        [x |-> g.df.x, y |-> g.y_hat, mode |-> "lines", name |-> "fit"] >>,
            layout |-> [title |-> "Linear relationship with controllable noise",
                        xaxis_title |-> "x", yaxis_title |-> "y",
                        template |-> "plotly_white", legend |-> "h"]]]

(***************************************************************************)
(* Cell 6: the static note on the data flow.                               *)
(***************************************************************************)
Cell6 ==
  [defs |-> <<>>,
   out |-> [kind |-> "md", text |-> <<"**Data flow**">>]]

(***************************************************************************)
(* The runtime: it runs the ready cells of a run one at a time, and takes  *)
(* a slider change between runs.                                           *)
(***************************************************************************)
Init ==
  /\ globals = <<>>
  /\ output = <<>>
  /\ dirty = Cells
  /\ cycle = 0
  /\ execs = [c \in Cells |-> 0]
  /\ stamp = [c \in Cells |-> 0]
  /\ history = {}

\* the runtime executes cell c, b being what its body computes: it binds the
\* variables the cell defines and displays the cell's output
Run(c, b) ==
  /\ globals' = b.defs @@ globals
  /\ output' = (c :> b.out) @@ output
  /\ history' = IF c = 2
                 THEN history \cup {[n |-> globals.n.value, sigma |-> globals.sigma.value,
                                     df |-> b.defs.df]}
                 ELSE history
  /\ dirty' = dirty \ {c}
  /\ execs' = [execs EXCEPT ![c] = @ + 1]
  /\ stamp' = [stamp EXCEPT ![c] = cycle]
  /\ UNCHANGED cycle

RunCell1 == Ready(1) /\ Run(1, Cell1)

RunCell2 == Ready(2) /\ Run(2, Cell2(globals))

RunCell3 == Ready(3) /\ Run(3, Cell3(globals))

RunCell4 == Ready(4) /\ Run(4, Cell4(globals))

RunCell5 == Ready(5) /\ Run(5, Cell5(globals))

RunCell6 == Ready(6) /\ Run(6, Cell6)

\* the last position of a slider's track
LastPosition(s) == CHOOSE k \in Positions(s) : \A j \in Positions(s) : j <= k

\* the positions the model's user drags a slider to: the first ones, the last
\* one and the one of the slider's initial value
Drags(s, first) ==
  {k \in Positions(s) : k <= first \/ k = LastPosition(s) \/ ValueAt(s, k) = s.value}

\* the user leaves the slider named v at position k
SetValue(v, k) ==
  /\ cycle < MaxChanges
  /\ v \in DOMAIN globals
  /\ ValueAt(globals[v], k) # globals[v].value
  /\ globals' = [globals EXCEPT ![v].value = ValueAt(globals[v], k)]
  /\ dirty' = Affected(v)
  /\ cycle' = cycle + 1
  /\ UNCHANGED <<output, execs, stamp, history>>

SetSigma == \E k \in Drags(SigmaSlider, MaxSigmaPos) : Idle /\ SetValue("sigma", k)

SetN == \E k \in Drags(NSlider, MaxNPos) : Idle /\ SetValue("n", k)

Next ==
  \/ RunCell1
  \/ RunCell2
  \/ RunCell3
  \/ RunCell4
  \/ RunCell5
  \/ RunCell6
  \/ SetSigma
  \/ SetN

Spec == Init /\ [][Next]_vars

(***************************************************************************)
(* Cell 2 alone, as a function of its inputs: n ranges over the small      *)
(* sample sizes and the ones the user's drags reach, sigma over the whole  *)
(* grid of its slider.                                                     *)
(***************************************************************************)
SampleSizes == (2..MaxLinspaceN) \cup {ValueAt(NSlider, k) : k \in Drags(NSlider, MaxNPos)}

InitData ==
  /\ \E k \in SampleSizes, s \in SliderValues(SigmaSlider) :
       globals = [sigma |-> [SigmaSlider EXCEPT !.value = s],
                  n |-> [NSlider EXCEPT !.value = k]]
  /\ output = (1 :> Cell1.out)
  /\ dirty = {2}
  /\ cycle = 0
  /\ execs = [c \in Cells |-> IF c = 1 THEN 1 ELSE 0]
  /\ stamp = [c \in Cells |-> 0]
  /\ history = {}

DataSpec == InitData /\ [][RunCell2]_vars

(***************************************************************************)
(* Properties.                                                             *)
(***************************************************************************)
Has(v) == v \in DOMAIN globals

\* cell c executes in this step
Runs(c) == c \in dirty /\ c \notin dirty'

\* C1: in every run, the start-up one and the one a slider change starts,
\* no cell executes while a cell that produces one of its inputs is still
\* to run: Cell 1 before Cells 2 and 4, Cell 2 before Cells 3 and 5, Cell 3
\* before Cells 4 and 5.
C1_DependencyOrder ==
  [][\A e \in {<<1, 2>>, <<1, 4>>, <<2, 3>>, <<2, 5>>, <<3, 4>>, <<3, 5>>} :
       Runs(e[2]) => e[1] \notin dirty]_vars

\* a slider change's run in which the report has run and the chart has not
C1_Witness == cycle >= 1 /\ 4 \notin dirty /\ 5 \in dirty

\* sigma in hundredths as format(sigma, ".1f") writes it
OneDecimal(v) == ToString(v \div 100) \o "." \o ToString((v % 100) \div 10)

\* C2: between runs nothing derived is stale: df is the data set of the
\* sliders' values, slope, intercept, r and y_hat are the fit of df, the
\* figure plots df and y_hat, and the report shows n as an integer and sigma
\* with one decimal.
C2_NothingStale ==
  Idle =>
    /\ globals.df = Cell2(globals).defs.df
    /\ LET fit == Cell3(globals).defs IN
         /\ globals.slope = fit.slope
         /\ globals.intercept = fit.intercept
         /\ globals.r = fit.r
         /\ globals.y_hat = fit.y_hat
    /\ output[5].data[1].x = globals.df.x
    /\ output[5].data[1].y = globals.df.y
    /\ output[5].data[2].x = globals.df.x
    /\ output[5].data[2].y = globals.y_hat
    /\ output[4].text[3] = FormatFixed(globals.slope, 2)
    /\ output[4].text[5] = FormatFixed(globals.intercept, 2)
    /\ output[4].text[8] = FormatCorr(globals.r, 3)
    /\ output[4].text[10] = "- **Sample size**: **"
    /\ output[4].text[11] = ToString(globals.n.value)
    /\ output[4].text[13] = "- **Noise std (sigma)**: **"
    /\ output[4].text[14] = OneDecimal(globals.sigma.value)

\* both sliders moved away from their initial values, and the run is over
C2_Witness ==
  /\ Idle
  /\ cycle = 2
  /\ globals.n.value # NSlider.value
  /\ globals.sigma.value # SigmaSlider.value

\* C3: two executions of Cell 2 with the same n and sigma produce the same
\* data set, whatever was executed before each.
C3_Deterministic ==
  \A a \in history, b \in history :
    (a.n = b.n /\ a.sigma = b.sigma) => a.df = b.df

\* Cell 2 has run again for the initial n and sigma, after runs for others
C3_Witness ==
  /\ cycle = 2
  /\ stamp[2] = 2
  /\ 2 \notin dirty
  /\ globals.n.value = NSlider.value
  /\ globals.sigma.value = SigmaSlider.value
  /\ Cardinality(history) = 2

\* C4: sigma stays in [0, 5] on the 0.1 grid and n in [50, 1000] on the
\* multiples of 50; before any slider change sigma is 1.0 and n is 300.
C4_SliderRanges ==
  (Has("sigma") /\ Has("n")) =>
    /\ globals.sigma.value \in 0..500
    /\ globals.sigma.value % 10 = 0
    /\ globals.n.value \in 50..1000
    /\ globals.n.value % 50 = 0
    /\ cycle = 0 => (globals.sigma.value = 100 /\ globals.n.value = 300)

\* the user has dragged sigma to its stop and n to its start
C4_Witness ==
  /\ Has("sigma") /\ Has("n")
  /\ globals.sigma.value = 500
  /\ globals.n.value = 50

\* C5: between runs x, y and y_hat have n elements each.
C5_Lengths ==
  Idle =>
    /\ ArrLen(globals.df.x) = globals.n.value
    /\ ArrLen(globals.df.y) = globals.n.value
    /\ ArrLen(globals.y_hat) = globals.n.value

\* a run for a changed n is over
C5_Witness == Idle /\ cycle >= 1 /\ globals.n.value # NSlider.value

\* C6: for n >= 2 the x Cell 2 produces starts at 0, ends at 10, never
\* decreases, has constant difference 10 / (n - 1), and is the same for
\* every sigma.
C6_Linspace ==
  (2 \notin dirty /\ globals.n.value >= 2) =>
    LET x == globals.df.x
        n == globals.n.value
    IN /\ ArrLen(x) = n
       /\ x.num[1] = 0
       /\ x.num[n] = 10 * x.den
       /\ \A i \in 1..(n - 1) :
            /\ x.num[i] <= x.num[i + 1]
            /\ (x.num[i + 1] - x.num[i]) * (n - 1) = 10 * x.den
       /\ \A s \in SliderValues(SigmaSlider) :
            Cell2([globals EXCEPT !["sigma"].value = s]).defs.df.x = x

\* Cell 2 has run for three points and the largest sigma
C6_Witness ==
  /\ 2 \notin dirty
  /\ globals.n.value = 3
  /\ globals.sigma.value = SigmaSlider.stop

\* y[i] - (2.5 x[i] + 5), times the denominators 2 * x.den * y.den
Excess(x, y, i) ==
  BSub(BMul(Big(2 * x.den), Big(y.num[i])),
       BMul(Big(y.den), Big(5 * x.num[i] + 10 * x.den)))

\* C7: with sigma = 0, once Cells 2 and 3 have run, y = 2.5 x + 5 at every
\* point, the slope is 2.5, the intercept 5, r is 1 and y_hat = y at every
\* point.
C7_NoiseFree ==
  (Has("sigma") /\ globals.sigma.value = 0 /\ 2 \notin dirty /\ 3 \notin dirty) =>
    LET x == globals.df.x
        y == globals.df.y
        y_hat == globals.y_hat
    IN /\ \A i \in DOMAIN x.num :
            /\ Excess(x, y, i) = BZero
            /\ BMul(y_hat.num[i], Big(y.den)) = BMul(Big(y.num[i]), y_hat.den)
       /\ RatEq(globals.slope, Rat(Big(5), Big(2)))
       /\ RatEq(globals.intercept, Rat(Big(5), Big(1)))
       /\ globals.r.sgn = 1
       /\ globals.r.sq.num = globals.r.sq.den

\* the user has dragged sigma to 0 and n to 50, and the run is over
C7_Witness ==
  /\ Idle
  /\ cycle = 2
  /\ globals.sigma.value = 0
  /\ globals.n.value = 50

\* C8: Cell 1 and Cell 6 execute once, at start-up, and never again; each
\* slider change makes Cells 2, 3, 4 and 5, and no other cell, execute once;
\* the note of Cell 6 stays as it was displayed.
C8_MinimalRerun ==
  /\ execs[1] <= 1
  /\ execs[6] <= 1
  /\ cycle >= 1 => (execs[1] = 1 /\ execs[6] = 1 /\ dirty \subseteq {2, 3, 4, 5})
  /\ \A c \in {2, 3, 4, 5} : execs[c] = IF c \in dirty THEN cycle ELSE cycle + 1
  /\ 6 \notin dirty => output[6] = [kind |-> "md", text |-> <<"**Data flow**">>]

\* two slider changes, and the second one's run is over
C8_Witness == Idle /\ cycle = 2 /\ execs[4] = 3

\* C9: a slider changes only between runs, and a cell executes only on
\* inputs of the current cycle: when Cell 3, 4 or 5 executes, Cells 2 and 3
\* (those of them it reads from, directly or not) have run in this cycle,
\* and the report's n is the size of the data set the fit was computed on.
C9_NoInterleaving ==
  [][/\ (cycle' # cycle \/ (Has("n") /\ globals'.n # globals.n)
                         \/ (Has("sigma") /\ globals'.sigma # globals.sigma)) => Idle
     /\ Runs(3) => stamp[2] = cycle
     /\ Runs(4) => (stamp[2] = cycle /\ stamp[3] = cycle
                    /\ output'[4].text[11] = ToString(ArrLen(globals.df.x))
                    /\ globals.slope = Polyfit(globals.df.x, globals.df.y)[1])
     /\ Runs(5) => (stamp[2] = cycle /\ stamp[3] = cycle)]_vars

\* the report has executed in the second slider change's run
C9_Witness == cycle = 2 /\ stamp[4] = 2 /\ 4 \notin dirty

\* C10 as claimed: an execution of Cell 2 continues the stream where the
\* previous execution left the generator.
C10_SharedStream ==
  [][(Runs(2) /\ Has("rng")) =>
       globals'.rng.pos = globals.rng.pos + globals.n.value]_vars

\* C10 as amended: every execution of Cell 2 makes a new generator from seed
\* 42 and draws the first n values of its stream: the generator it leaves
\* stands at n, and the noise in y is sigma times the draws 0 .. n - 1 of
\* that stream, whatever was executed before.
C10_FreshGenerator ==
  (Has("rng") /\ 2 \notin dirty) =>
    /\ globals.rng = [seed |-> 42, pos |-> globals.n.value]
    /\ globals.df.y =
         ArrAdd(ArrAddConst(ArrScale(5, 2, globals.df.x), 5),
                [den |-> 100,
                 num |-> [i \in 1..globals.n.value |->
                            globals.sigma.value * StdNormal(42, i - 1)]])

\* Cell 2 has executed three times, the last time with noise
C10_Witness == execs[2] = 3 /\ 2 \notin dirty /\ globals.sigma.value > 0

====
